---------------------------- MODULE Spec2Model ----------------------------
(***************************************************************************)
(* Model of the CAPNOW lead cleaner (src/app1.py) and of the bank          *)
(* statements verifier (src/Bank_Statements_Verifier.py), two Streamlit    *)
(* scripts.  A Streamlit script is re-executed from its first line on      *)
(* every user interaction; st.session_state and the widgets' values are    *)
(* what survives between two runs.  One behaviour of Spec is one browser   *)
(* session of one of the two scripts.                                      *)
(*                                                                         *)
(* Text is modelled by TLA+ strings, read character by character; a       *)
(* pandas Series is a function from row labels to values, a DataFrame a    *)
(* sequence of column names with one Series per name.                      *)
(***************************************************************************)
EXTENDS Integers, Sequences, FiniteSets, TLC

VARIABLES
    app,               \* which script this session runs
    password_correct,  \* st.session_state["password_correct"], or "unset"
    password,          \* st.session_state["password"] (the widget's value), or Absent
    page,              \* what the last script run rendered
    uploaded_file,     \* the cleaner's st.file_uploader value
    reuploaded,        \* the uploaded file is a CSV downloaded from the cleaner
    out,               \* the cleaner's DataFrame `out` of the last run
    uploaded_files,    \* the verifier's st.file_uploader value: texts of the PDFs
    neg_counts,        \* the verifier's neg_counts of the last run
    failed_pdfs        \* the verifier's failed_pdfs of the last run

vars == <<app, password_correct, password, page, uploaded_file, reuploaded, out,
          uploaded_files, neg_counts, failed_pdfs>>

(***************************************************************************)
(* Bounds of the model.                                                    *)
(***************************************************************************)
MaxCols == 2
MaxRows == 2
MaxFiles == 1
MaxLines == 2

(***************************************************************************)
(* Characters and strings.                                                 *)
(***************************************************************************)
DIGITS == "0123456789"
LOWERCASE == "abcdefghijklmnopqrstuvwxyz"
UPPERCASE == "ABCDEFGHIJKLMNOPQRSTUVWXYZ"

CharAt(s, i) == SubSeq(s, i, i)
CharsOf(s) == {CharAt(s, i) : i \in 1..Len(s)}

Digit == CharsOf(DIGITS)
Whitespace == {" ", "\n", "\t"}
\* \w of Python's re on the characters used here
WordChar == CharsOf(DIGITS) \cup CharsOf(LOWERCASE) \cup CharsOf(UPPERCASE) \cup {"_"}

\* re.sub(r"[^...]", "", s): keep the characters of `keep`
RECURSIVE KeepFrom(_, _, _)
KeepFrom(s, i, keep) ==
    IF i > Len(s) THEN ""
    ELSE (IF CharAt(s, i) \in keep THEN CharAt(s, i) ELSE "") \o KeepFrom(s, i + 1, keep)
KeepChars(s, keep) == KeepFrom(s, 1, keep)

LOWER_OF == [c \in CharsOf(UPPERCASE) |->
                CharAt(LOWERCASE, CHOOSE i \in 1..Len(UPPERCASE) : CharAt(UPPERCASE, i) = c)]
LowerChar(c) == IF c \in DOMAIN LOWER_OF THEN LOWER_OF[c] ELSE c

\* str.lower()
RECURSIVE LowerFrom(_, _)
LowerFrom(s, i) == IF i > Len(s) THEN "" ELSE LowerChar(CharAt(s, i)) \o LowerFrom(s, i + 1)
lower(s) == LowerFrom(s, 1)

\* str.strip()
strip(s) ==
    LET inked == {i \in 1..Len(s) : CharAt(s, i) \notin Whitespace}
    IN IF inked = {} THEN ""
       ELSE SubSeq(s, CHOOSE i \in inked : \A k \in inked : i <= k,
                      CHOOSE i \in inked : \A k \in inked : i >= k)

\* "@" in s, for a one-character needle
Contains(s, c) == \E i \in 1..Len(s) : CharAt(s, i) = c

DigitVal(c) == (CHOOSE i \in 1..Len(DIGITS) : CharAt(DIGITS, i) = c) - 1
DigitChar(n) == CharAt(DIGITS, n + 1)


Min(S) == CHOOSE x \in S : \A y \in S : x <= y
Max(S) == CHOOSE x \in S : \A y \in S : x >= y

(***************************************************************************)
(* The cleaner's tables (src/app1.py).                                     *)
(***************************************************************************)
FINAL_COLUMNS ==
    << "Lead Date", "Business Name", "Full Name", "SSN", "DOB", "Industry", "EIN",
       "Business Start Date", "Phone 1", "Phone 2", "Phone 3", "Email 1", "Email 2",
       "Business Address", "Home Address", "Monthly Revenue" >>

FIELD_ALIASES ==
    [ first_name |-> <<"firstname", "first name", "fname", "applicantfirstname", "givenname">>,
      last_name |-> <<"lastname", "last name", "lname", "applicantlastname", "surname">>,
      full_name |-> <<"fullname", "contactname", "applicantname", "name", "borrowername",
                      "clientname", "ownername">>,
      ssn |-> <<"ssn", "social", "socialsecurity", "socialsecuritynumber", "social sec">>,
      ein |-> <<"ein", "taxid", "tax id", "fein", "federalid", "business taxid", "employer id">>,
      dob |-> <<"dob", "birthdate", "dateofbirth", "birth", "d.o.b", "applicantdob">>,
      business_name |-> <<"businessname", "company", "companyname", "organization", "bizname",
                          "dba", "employer", "legal business name">>,
      industry |-> <<"industry", "sector", "business type", "business category",
                     "natureofbusiness">>,
      phone |-> <<"phone", "cell", "mobile", "contact", "primary phone", "contact number",
                  "number", "telephone">>,
      phone2 |-> <<"phone2", "cell2", "mobile2", "secondary phone", "alt phone">>,
      phone3 |-> <<"phone3", "cell3", "mobile3", "extra phone">>,
      email |-> <<"email", "email1", "gmail", "contact email", "googleemail", "applicantemail",
                  "e-mail">>,
      email2 |-> <<"email2", "backupemail", "secondaryemail", "alt email">>,
      revenue |-> <<"monthly revenue", "revenue", "income", "turnover", "monthlyincome",
                    "monthly gross", "gross revenue", "grossmonthlyincome">>,
      address |-> <<"address", "street", "city", "state", "zip", "zipcode", "mailing address",
                    "business address", "home address", "location", "residential address">> ]

HOME_ADDRESS_KEYS == <<"home address", "residential address", "owner address">>

ALNUM_LOWER == CharsOf(LOWERCASE) \cup Digit

\* re.sub(r"[^a-z0-9]", "", str(col).lower().strip())
Normalized(col) == KeepChars(strip(lower(col)), ALNUM_LOWER)

\* The normal forms of the keys of the alias lists and of the output's
\* headers, which are static, computed once
KNOWN_NAMES ==
    UNION {{FIELD_ALIASES[f][k] : k \in 1..Len(FIELD_ALIASES[f])} : f \in DOMAIN FIELD_ALIASES}
    \cup {HOME_ADDRESS_KEYS[k] : k \in 1..Len(HOME_ADDRESS_KEYS)}
    \cup {FINAL_COLUMNS[k] : k \in 1..Len(FINAL_COLUMNS)}
NORMALIZED_NAMES == [name \in KNOWN_NAMES |-> Normalized(name)]

normalize(col) == IF col \in KNOWN_NAMES THEN NORMALIZED_NAMES[col] ELSE Normalized(col)

(***************************************************************************)
(* pandas values.  A cell of the uploaded table is a string (dtype=str,    *)
(* fillna("")); an element of a Series is a string, a Timestamp, NaT or    *)
(* NaN.                                                                    *)
(***************************************************************************)
Str(s) == [t |-> "str", s |-> s, y |-> 0, m |-> 0, d |-> 0]
Timestamp(y, m, d) == [t |-> "ts", s |-> "", y |-> y, m |-> m, d |-> d]
NaT == [t |-> "nat", s |-> "", y |-> 0, m |-> 0, d |-> 0]
NaN == [t |-> "nan", s |-> "", y |-> 0, m |-> 0, d |-> 0]

\* pd.to_datetime(x, errors='coerce') on one string: an ISO date YYYY-MM-DD is
\* parsed, anything else is coerced to NaT
to_datetime(s) ==
    IF /\ Len(s) = 10
       /\ \A i \in {1, 2, 3, 4, 6, 7, 9, 10} : CharAt(s, i) \in Digit
       /\ CharAt(s, 5) = "-" /\ CharAt(s, 8) = "-"
    THEN LET y == 1000 * DigitVal(CharAt(s, 1)) + 100 * DigitVal(CharAt(s, 2))
                  + 10 * DigitVal(CharAt(s, 3)) + DigitVal(CharAt(s, 4))
             m == 10 * DigitVal(CharAt(s, 6)) + DigitVal(CharAt(s, 7))
             d == 10 * DigitVal(CharAt(s, 9)) + DigitVal(CharAt(s, 10))
         IN IF y >= 1 /\ m \in 1..12 /\ d \in 1..31 THEN Timestamp(y, m, d) ELSE NaT
    ELSE NaT

\* str(Timestamp) of a midnight timestamp
isoformat(v) ==
    DigitChar(v.y \div 1000) \o DigitChar((v.y \div 100) % 10) \o DigitChar((v.y \div 10) % 10)
    \o DigitChar(v.y % 10) \o "-" \o DigitChar(v.m \div 10) \o DigitChar(v.m % 10)
    \o "-" \o DigitChar(v.d \div 10) \o DigitChar(v.d % 10)

\* Series.astype(str) on one element
astype_str(v) ==
    CASE v.t = "str" -> v.s
      [] v.t = "ts" -> isoformat(v)
      [] v.t = "nat" -> "NaT"
      [] v.t = "nan" -> "nan"

\* A DataFrame read from a file: columns (names), n (rows), data[j][i] the
\* cell of column j in row i.
Column(df, j) == [i \in 1..df.n |-> Str(df.data[j][i])]

\* A variant of EmptySeries: a Series of no element, pd.Series([])
EmptySeries_NoRows(df) == [i \in {} |-> Str("")]

\* pd.Series([""] * len(df))
EmptySeries(df) == [i \in 1..df.n |-> Str("")]

\* The elements of a set of numbers in increasing order, as a sequence
Ascending(S) ==
    [k \in 1..Cardinality(S) |-> CHOOSE x \in S : Cardinality({y \in S : y < x}) = k - 1]

(***************************************************************************)
(* The cleaner's helpers.                                                  *)
(***************************************************************************)
\* A variant of extract_by_keywords: the loop does not return at the first
\* match, and the last matching column is kept
extract_by_keywords_Last(df, keys) ==
    LET nkeys == {normalize(keys[k]) : k \in 1..Len(keys)}
        hits == {j \in 1..Len(df.columns) : normalize(df.columns[j]) \in nkeys}
    IN IF hits = {} THEN [i \in 1..df.n |-> Str("")] ELSE Column(df, Max(hits))

\* The first column, in column order, whose normalized header is one of the
\* normalized keys; a Series of "" when there is none.
extract_by_keywords(df, keys) ==
    LET nkeys == {normalize(keys[k]) : k \in 1..Len(keys)}
        hits == {j \in 1..Len(df.columns) : normalize(df.columns[j]) \in nkeys}
    IN IF hits = {} THEN EmptySeries(df) ELSE Column(df, Min(hits))

\* A variant of extract_phones: the filtered Series is relabelled from the first
\* row on (valid.reset_index(drop=True))
extract_phones_Relabelled(df) ==
    LET digits(j) == [i \in 1..df.n |-> KeepChars(df.data[j][i], Digit)]
        rows(j) == Ascending({r \in 1..df.n : Len(digits(j)[r]) = 10})
        valid(j) == [n \in 1..Len(rows(j)) |-> Str(digits(j)[rows(j)[n]])]
        found == Ascending({j \in 1..Len(df.columns) : DOMAIN valid(j) # {}})
    IN [k \in 1..3 |-> IF k <= Len(found) THEN valid(found[k]) ELSE [i \in 1..df.n |-> Str("")]]

\* Per column: the digits of every cell, filtered to the rows with exactly 10
\* digits (the filtered Series keeps the labels of those rows); the columns
\* with at least one such row, the first three, padded with Series of "".
extract_phones(df) ==
    LET digits(j) == [i \in 1..df.n |-> KeepChars(df.data[j][i], Digit)]
        valid(j) == [i \in {r \in 1..df.n : Len(digits(j)[r]) = 10} |-> Str(digits(j)[i])]
        found == Ascending({j \in 1..Len(df.columns) : DOMAIN valid(j) # {}})
        phones == [k \in 1..Len(found) |-> valid(found[k])]
    IN [k \in 1..3 |-> IF k <= Len(phones) THEN phones[k] ELSE EmptySeries(df)]

\* The columns with an "@" in at least one cell, whole; the first two, padded.
extract_emails(df) ==
    LET found == Ascending({j \in 1..Len(df.columns) :
                               \E i \in 1..df.n : Contains(df.data[j][i], "@")})
        emails == [k \in 1..Len(found) |-> Column(df, found[k])]
    IN [k \in 1..2 |-> IF k <= Len(emails) THEN emails[k] ELSE EmptySeries(df)]

\* pd.to_datetime(df[col], errors='coerce')
Dates(df, j) == [i \in 1..df.n |-> to_datetime(df.data[j][i])]
NotNa(dates) == {i \in DOMAIN dates : dates[i].t = "ts"}

\* A variant of MostlyBefore2000: >= 0.5 in place of > 0.5
MostlyBefore2000_AtLeastHalf(dates) ==
    2 * Cardinality({i \in NotNa(dates) : dates[i].y < 2000}) >= Cardinality(NotNa(dates))

\* (dates.dropna().dt.year < 2000).mean() > 0.5
MostlyBefore2000(dates) ==
    2 * Cardinality({i \in NotNa(dates) : dates[i].y < 2000}) > Cardinality(NotNa(dates))
\* (dates.dropna().dt.year >= 2000).mean() > 0.5
MostlyFrom2000(dates) ==
    2 * Cardinality({i \in NotNa(dates) : dates[i].y >= 2000}) > Cardinality(NotNa(dates))
\* (date_series.dropna().dt.year > 2000).mean() > 0.5
MostlyAfter2000(dates) ==
    2 * Cardinality({i \in NotNa(dates) : dates[i].y > 2000}) > Cardinality(NotNa(dates))

dob_candidates(df) ==
    {j \in 1..Len(df.columns) : NotNa(Dates(df, j)) # {} /\ MostlyBefore2000(Dates(df, j))}
bsd_candidates(df) ==
    {j \in 1..Len(df.columns) : NotNa(Dates(df, j)) # {} /\ MostlyFrom2000(Dates(df, j))}

\* The loop returns the dates of the first candidate; a Series of "" after it
FirstOf(df, candidates) ==
    IF candidates # {} THEN Dates(df, Min(candidates)) ELSE EmptySeries(df)

extract_dobs(df) == FirstOf(df, dob_candidates(df))

extract_bsd(df) == FirstOf(df, bsd_candidates(df))

\* Called on a table with at least one column: df.iloc[:, 0] raises IndexError
\* on a table with none (see Process).
extract_lead_date(df) ==
    IF NotNa(Dates(df, 1)) # {} /\ MostlyAfter2000(Dates(df, 1))
    THEN Dates(df, 1)
    ELSE EmptySeries(df)

(***************************************************************************)
(* The output DataFrame: columns (names, in order of first assignment),    *)
(* index (row labels) and data (one Series over index per name).           *)
(***************************************************************************)
EmptyFrame == [columns |-> <<>>, index |-> {}, data |-> <<>>]

\* The frame after out[name] = series for each <<name, series>> of items, in
\* order, from the empty frame.  A frame with an empty index takes the index
\* of a non-empty Series assigned to it; from then on a Series is aligned on
\* the frame's index, and a label it lacks gets NaN.
SetItems(items) ==
    LET filled == {k \in 1..Len(items) : DOMAIN items[k][2] # {}}
        index == IF filled = {} THEN {} ELSE DOMAIN items[Min(filled)][2]
    IN [columns |-> [k \in 1..Len(items) |-> items[k][1]],
        index |-> index,
        data |-> [k \in 1..Len(items) |->
                     [i \in index |-> IF i \in DOMAIN items[k][2] THEN items[k][2][i] ELSE NaN]]]

\* (first.astype(str) + " " + last.astype(str)).str.strip()
FullName(first, last) ==
    [i \in DOMAIN first |-> Str(strip(astype_str(first[i]) \o " " \o astype_str(last[i])))]

AsTypeStr(series) == [i \in DOMAIN series |-> Str(astype_str(series[i]))]

\* df.iloc[:, 0] in extract_lead_date, outside its try, raises on a table
\* with no column: the exception the run ends with, "" when none
ProcessRaises(df) == IF Len(df.columns) = 0 THEN "IndexError" ELSE ""

\* The assignments out[name] = ... of the body, in order, with the phones and
\* emails found
Assign(df, phones, emails) ==
    SetItems(<<
            <<"Lead Date", extract_lead_date(df)>>,
            <<"Business Name", extract_by_keywords(df, FIELD_ALIASES.business_name)>>,
            <<"Full Name", FullName(extract_by_keywords(df, FIELD_ALIASES.first_name),
                                    extract_by_keywords(df, FIELD_ALIASES.last_name))>>,
            <<"SSN", extract_by_keywords(df, FIELD_ALIASES.ssn)>>,
            <<"DOB", AsTypeStr(extract_dobs(df))>>,
            <<"Industry", extract_by_keywords(df, FIELD_ALIASES.industry)>>,
            <<"EIN", extract_by_keywords(df, FIELD_ALIASES.ein)>>,
            <<"Business Start Date", AsTypeStr(extract_bsd(df))>>,
            <<"Phone 1", phones[1]>>,
            <<"Phone 2", phones[2]>>,
            <<"Phone 3", phones[3]>>,
            <<"Email 1", emails[1]>>,
            <<"Email 2", emails[2]>>,
            <<"Business Address", extract_by_keywords(df, FIELD_ALIASES.address)>>,
            <<"Home Address", extract_by_keywords(df, HOME_ADDRESS_KEYS)>>,
            <<"Monthly Revenue", extract_by_keywords(df, FIELD_ALIASES.revenue)>> >>)

\* The body of `if uploaded_file:` up to st.dataframe(out): the frame built
Process(df) ==
    IF ProcessRaises(df) # "" THEN EmptyFrame
    ELSE Assign(df, extract_phones(df), extract_emails(df))

(***************************************************************************)
(* The downloaded CSV and its reading back.                                *)
(***************************************************************************)
\* One cell of out.to_csv(index=False): NaN and NaT are written as "", a
\* midnight Timestamp as its date.
csv_cell(v) ==
    CASE v.t = "str" -> v.s
      [] v.t = "ts" -> isoformat(v)
      [] v.t = "nat" -> ""
      [] v.t = "nan" -> ""

\* The CSV as header and rows of strings, rows in index order
to_csv(frame) ==
    [header |-> frame.columns,
     rows |-> [i \in 1..Cardinality(frame.index) |->
                  [k \in 1..Len(frame.columns) |-> csv_cell(frame.data[k][i])]]]

\* pd.read_csv(file, dtype=str).fillna("") followed by the strip of the
\* headers: a cell that is one of read_csv's NA markers becomes ""
NA_VALUES == {"", "#N/A", "N/A", "NA", "NULL", "NaN", "None", "n/a", "nan", "null", "<NA>"}
read_csv(csv) ==
    [columns |-> [k \in 1..Len(csv.header) |-> strip(csv.header[k])],
     n |-> Len(csv.rows),
     data |-> [k \in 1..Len(csv.header) |->
                  [i \in 1..Len(csv.rows) |->
                      IF csv.rows[i][k] \in NA_VALUES THEN "" ELSE csv.rows[i][k]]]]

(***************************************************************************)
(* The verifier's text scans (src/Bank_Statements_Verifier.py).  A regular  *)
(* expression is matched at a position of the text; re.findall collects    *)
(* the matches from left to right.                                         *)
(***************************************************************************)
AllIn(text, a, b, class) == \A k \in a..b : CharAt(text, k) \in class

\* The last position of the longest run of characters of `class` that starts
\* at position a; a - 1 when there is none.
RECURSIVE RunEnd(_, _, _)
RunEnd(text, a, class) ==
    IF a <= Len(text) /\ CharAt(text, a) \in class THEN RunEnd(text, a + 1, class) ELSE a - 1

\* (\b\w{3} \d{2}) at position i
DateAt(text, i) ==
    /\ i + 5 <= Len(text)
    /\ i = 1 \/ CharAt(text, i - 1) \notin WordChar
    /\ AllIn(text, i, i + 2, WordChar)
    /\ CharAt(text, i + 3) = " "
    /\ AllIn(text, i + 4, i + 5, Digit)

\* [0-9,]+\.\d{2} from position p: the position of its last character, or 0
AmountEnd(text, p) ==
    LET e == RunEnd(text, p, Digit \cup {","})
    IN IF /\ e >= p
          /\ e + 3 <= Len(text)
          /\ CharAt(text, e + 1) = "."
          /\ AllIn(text, e + 2, e + 3, Digit)
       THEN e + 3 ELSE 0

MONTHS == <<"jan", "feb", "mar", "apr", "may", "jun", "jul", "aug", "sep", "oct", "nov", "dec">>
DAYS_2024 == <<31, 29, 31, 30, 31, 30, 31, 31, 30, 31, 30, 31>>

\* datetime.strptime(date_str + " 2024", "%b %d %Y") does not raise
strptime_ok(date_str) ==
    \E k \in 1..Len(MONTHS) :
        /\ lower(SubSeq(date_str, 1, 3)) = MONTHS[k]
        /\ 10 * DigitVal(CharAt(date_str, 5)) + DigitVal(CharAt(date_str, 6)) \in 1..DAYS_2024[k]

\* float(s) < 0 for s a decimal numeral with an optional sign
float_negative(s) ==
    /\ s # "" /\ CharAt(s, 1) = "-"
    /\ \E k \in 2..Len(s) : CharAt(s, k) \in Digit \ {"0"}

\* The pattern of parse_transactions matches at position i:
\* (\b\w{3} \d{2})\s+([A-Z0-9/.,&*()\- ]{5,})\s+(\$?\-?[0-9,]+\.\d{2})
\* with a the last character of the first \s+, b the last of the description
\* and c the last of the second \s+
DESC_CHARS == CharsOf(UPPERCASE) \cup Digit \cup {"/", ".", ",", "&", "*", "(", ")", "-", " "}
TransactionAt(text, i) ==
    /\ DateAt(text, i)
    /\ \E a \in i + 6..RunEnd(text, i + 6, Whitespace) :
          \E b \in a + 5..RunEnd(text, a + 1, DESC_CHARS) :
             \E c \in b + 1..RunEnd(text, b + 1, Whitespace) :
                \E dollar \in {0, 1}, minus \in {0, 1} :
                   /\ dollar = 1 => c + 1 <= Len(text) /\ CharAt(text, c + 1) = "$"
                   /\ minus = 1 => c + 1 + dollar <= Len(text)
                                    /\ CharAt(text, c + 1 + dollar) = "-"
                   /\ AmountEnd(text, c + 1 + dollar + minus) # 0

\* len(parse_transactions(text)): the matches whose date parses (the amount of
\* a match always converts)
parse_transactions(text) ==
    Cardinality({i \in 1..Len(text) : TransactionAt(text, i) /\ strptime_ok(SubSeq(text, i, i + 5))})

\* The balance captured by the pattern of detect_negative_days at position i,
\* (\b\w{3} \d{2})\s+\$\-?([0-9,]+\.\d{2}), as <<balance>>; <<>> when the
\* pattern does not match there.  The sign is matched outside the group.
BalanceAt(text, i) ==
    IF ~DateAt(text, i) THEN <<>>
    ELSE LET w == RunEnd(text, i + 6, Whitespace)
             p == IF w + 2 <= Len(text) /\ CharAt(text, w + 2) = "-" THEN w + 3 ELSE w + 2
         IN IF w >= i + 6 /\ w + 1 <= Len(text) /\ CharAt(text, w + 1) = "$"
               /\ AmountEnd(text, p) # 0
            THEN <<SubSeq(text, p, AmountEnd(text, p))>>
            ELSE <<>>

\* sum(1 for _, balance in matches if float(balance.replace(",", "")) < 0)
detect_negative_days(text) ==
    Cardinality({i \in 1..Len(text) :
                    /\ BalanceAt(text, i) # <<>>
                    /\ float_negative(KeepChars(BalanceAt(text, i)[1],
                                                CharsOf(BalanceAt(text, i)[1]) \ {","}))})

\* The loop over uploaded_files, the k-th file named k: a file with no
\* transaction goes to failed_pdfs and is skipped, the others get an entry of
\* neg_counts
FailedPdfs(files) == Ascending({k \in 1..Len(files) : parse_transactions(files[k]) = 0})
NegCounts(files) ==
    LET parsed == Ascending({k \in 1..Len(files) : parse_transactions(files[k]) # 0})
    IN [n \in 1..Len(parsed) |->
           [statement |-> parsed[n], days |-> detect_negative_days(files[parsed[n]])]]

(***************************************************************************)
(* The password gate, the same function in both scripts.                   *)
(***************************************************************************)
PASSWORD == "capnow$"

\* A variant of password_entered: a wrong submission locks the session
password_entered_Lockout(state) ==
    IF state.password = <<PASSWORD>> /\ state.password_correct # "False"
    THEN [password_correct |-> "True", password |-> <<>>]
    ELSE [state EXCEPT !.password_correct = "False"]

\* The callback of the text input: st.session_state after password_entered()
password_entered(state) ==
    IF state.password = <<PASSWORD>>
    THEN [password_correct |-> "True", password |-> <<>>]
    ELSE [state EXCEPT !.password_correct = "False"]

\* check_password(): what it returns and what it renders
check_password(state) ==
    IF state.password_correct = "unset"
    THEN [returns |-> FALSE, input |-> TRUE, error |-> FALSE]
    ELSE IF state.password_correct # "True"
         THEN [returns |-> FALSE, input |-> TRUE, error |-> TRUE]
         ELSE [returns |-> TRUE, input |-> FALSE, error |-> FALSE]

(***************************************************************************)
(* One run of a script, from its first line: st.stop() when the gate is    *)
(* closed, the page body otherwise.                                        *)
(***************************************************************************)
NoFile == <<>>

\* The script runs on the session state `state` with the uploaders' new values:
\* the next values of page, out, neg_counts and failed_pdfs.  The page is what
\* the run renders: the password input, the error under it, the body (the
\* uploader and what follows it), the output (the cleaned table with its
\* download button, or the verifier's report) and the exception the run ends
\* with ("" when none).
Run(state) ==
    LET gate == check_password(state)
        cleaning == gate.returns /\ app = "app1" /\ uploaded_file' # NoFile
        verifying == gate.returns /\ app = "Bank_Statements_Verifier" /\ uploaded_files' # <<>>
    IN /\ password_correct' = state.password_correct
       /\ password' = state.password
       /\ out' = IF cleaning THEN Process(uploaded_file'[1]) ELSE EmptyFrame
       /\ neg_counts' = IF verifying THEN NegCounts(uploaded_files') ELSE <<>>
       /\ failed_pdfs' = IF verifying THEN FailedPdfs(uploaded_files') ELSE <<>>
       /\ page' = [input |-> gate.input, error |-> gate.error, body |-> gate.returns,
                   output |-> \/ cleaning /\ ProcessRaises(uploaded_file'[1]) = ""
                              \/ verifying /\ neg_counts' # <<>>,
                   exception |-> IF cleaning THEN ProcessRaises(uploaded_file'[1]) ELSE ""]

(***************************************************************************)
(* The uploads the model draws from.                                       *)
(***************************************************************************)
Attempts == {PASSWORD, "capnow", ""}

\* The sequences without repetition of at most n elements of S
RECURSIVE Arrangements(_, _)
Arrangements(S, n) ==
    IF n = 0 THEN {<<>>}
    ELSE Arrangements(S, n - 1)
         \cup {Append(h, x) : h \in {g \in Arrangements(S, n - 1) : Len(g) = n - 1}, x \in S}

Distinct(h) == \A a, b \in 1..Len(h) : a # b => h[a] # h[b]

\* Headers and cells of the provider files: a family of small alphabets, each
\* a kind of file
InputProfiles ==
    { [headers |-> {"First Name", "lastname"}, cells |-> {"Ann", "Lee", ""}],
      [headers |-> {"company", "DBA", "Company #2"}, cells |-> {"Acme", ""}],
      [headers |-> {"when", "born"},
       cells |-> {"1980-01-02", "2000-06-15", "2021-03-04", "n/a"}],
      [headers |-> {"cell", "alt", "fax"}, cells |-> {"(555) 123-4567", "555-0000"}],
      [headers |-> {"email", "other"}, cells |-> {"a@b.co", "none"}],
      [headers |-> {"ssn", "id", "Tax ID"}, cells |-> {"123-45-6789", "12-3456789"}] }

\* A table as pd.read_csv / pd.read_excel returns it: distinct headers, and no
\* row without a column
TablesOf(profile) ==
    UNION { UNION { { [columns |-> h, n |-> n, data |-> d] :
                        d \in [1..Len(h) -> [1..n -> profile.cells]] } :
                    n \in IF h = <<>> THEN {0} ELSE 0..MaxRows } :
            h \in {g \in Arrangements(profile.headers, MaxCols) : Distinct(g)} }

Tables == UNION {TablesOf(profile) : profile \in InputProfiles}

\* Lines of a statement's text and the texts made of them
StatementLines == {"Jan 05 $-123.45", "Jan 06 $200.00", "Feb 07 ACME STORE 45.00"}

RECURSIVE Join(_)
Join(lines) ==
    IF lines = <<>> THEN ""
    ELSE IF Len(lines) = 1 THEN lines[1]
    ELSE lines[1] \o "\n" \o Join(Tail(lines))

Texts == {Join(ls) : ls \in UNION {[1..k -> StatementLines] : k \in 0..MaxLines}}

\* What the verifier's uploader returns: the texts of the files, in order
Statements == UNION {[1..k -> Texts] : k \in 1..MaxFiles}

(***************************************************************************)
(* The session.                                                            *)
(***************************************************************************)
State == [password_correct |-> password_correct, password |-> password]

Init ==
    /\ app \in {"app1", "Bank_Statements_Verifier"}
    /\ password_correct = "unset"
    /\ password = <<"">>
    /\ page = [input |-> TRUE, error |-> FALSE, body |-> FALSE, output |-> FALSE,
               exception |-> ""]
    /\ uploaded_file = NoFile
    /\ reuploaded = FALSE
    /\ out = EmptyFrame
    /\ uploaded_files = <<>>
    /\ neg_counts = <<>>
    /\ failed_pdfs = <<>>

\* The user types p in the password input and presses Enter: the widget's
\* value changes, the callback runs, then the script.
SubmitPassword(p) ==
    /\ page.input
    /\ password # <<p>>
    /\ UNCHANGED <<app, uploaded_file, reuploaded, uploaded_files>>
    /\ Run(password_entered([State EXCEPT !.password = <<p>>]))

\* The user reruns the script (Streamlit's Rerun command)
Rerun ==
    /\ UNCHANGED <<app, uploaded_file, reuploaded, uploaded_files>>
    /\ Run(State)

\* The user uploads a provider's file in the cleaner
Upload ==
    /\ app = "app1"
    /\ page.body
    /\ uploaded_file = NoFile
    /\ \E table \in Tables : uploaded_file' = <<table>>
    /\ reuploaded' = FALSE
    /\ UNCHANGED <<app, uploaded_files>>
    /\ Run(State)

\* The user downloads the cleaned CSV and uploads it in place of the file
ReuploadCleaned ==
    /\ app = "app1"
    /\ page.output
    /\ uploaded_file' = <<read_csv(to_csv(out))>>
    /\ reuploaded' = TRUE
    /\ UNCHANGED <<app, uploaded_files>>
    /\ Run(State)

\* The user removes the file from the uploader
RemoveFile ==
    /\ app = "app1"
    /\ page.body
    /\ uploaded_file # NoFile
    /\ uploaded_file' = NoFile
    /\ reuploaded' = FALSE
    /\ UNCHANGED <<app, uploaded_files>>
    /\ Run(State)

\* The user uploads statements in the verifier
UploadStatements ==
    /\ app = "Bank_Statements_Verifier"
    /\ page.body
    /\ uploaded_files = <<>>
    /\ \E files \in Statements : uploaded_files' = files
    /\ UNCHANGED <<app, uploaded_file, reuploaded>>
    /\ Run(State)

\* The user removes the statements from the uploader
RemoveStatements ==
    /\ app = "Bank_Statements_Verifier"
    /\ page.body
    /\ uploaded_files # <<>>
    /\ uploaded_files' = <<>>
    /\ UNCHANGED <<app, uploaded_file, reuploaded>>
    /\ Run(State)

Next ==
    \/ \E p \in Attempts : SubmitPassword(p)
    \/ Rerun
    \/ Upload
    \/ ReuploadCleaned
    \/ RemoveFile
    \/ UploadStatements
    \/ RemoveStatements

Spec == Init /\ [][Next]_vars

(***************************************************************************)
(* Views of the state used by the properties.                              *)
(***************************************************************************)
\* The cleaner has processed the uploaded file and shows its output
Cleaned == app = "app1" /\ page.output
\* The uploaded table and the CSV offered for download
df == uploaded_file[1]
ColumnOf(name) == CHOOSE k \in 1..Len(FINAL_COLUMNS) : FINAL_COLUMNS[k] = name
\* The cell of the CSV in row i under the k-th header, and under the header `name`
CellAt(i, k) == csv_cell(out.data[k][i])
Cell(i, name) == CellAt(i, ColumnOf(name))

\* The columns whose normalized header equals a normalized key
Matching(keys) ==
    {j \in 1..Len(df.columns) : normalize(df.columns[j]) \in {normalize(keys[k]) : k \in 1..Len(keys)}}
\* The columns with 10 digits in some cell, and those with an "@" in some cell
PhoneColumns ==
    {j \in 1..Len(df.columns) : \E i \in 1..df.n : Len(KeepChars(df.data[j][i], Digit)) = 10}
EmailColumns ==
    {j \in 1..Len(df.columns) : \E i \in 1..df.n : Contains(df.data[j][i], "@")}
\* The target fields filled from one column found by its header
AliasFields ==
    { <<"Business Name", FIELD_ALIASES.business_name>>, <<"SSN", FIELD_ALIASES.ssn>>,
      <<"Industry", FIELD_ALIASES.industry>>, <<"EIN", FIELD_ALIASES.ein>>,
      <<"Business Address", FIELD_ALIASES.address>>, <<"Home Address", HOME_ADDRESS_KEYS>>,
      <<"Monthly Revenue", FIELD_ALIASES.revenue>> }
AllEmpty(k) == \A i \in out.index : out.data[k][i] = Str("")

DerivedFromRow(i) ==
    LET cells == {df.data[j][i] : j \in 1..Len(df.columns)}
    IN cells
       \cup {KeepChars(c, Digit) : c \in cells}
       \cup {astype_str(to_datetime(c)) : c \in cells}
       \cup {strip(a \o " " \o b) : a \in cells \cup {""}, b \in cells \cup {""}}

C2_RowAligned ==
    Cleaned =>
        /\ out.index = 1..df.n
        /\ Len(to_csv(out).rows) = df.n
        /\ \A i \in out.index :
              LET derived == DerivedFromRow(i)
              IN \A k \in 1..Len(out.columns) : CellAt(i, k) # "" => CellAt(i, k) \in derived

\* Only the second row has a phone number: the filtered Series lacks the
\* first row's label
C2_Witness ==
    /\ Cleaned /\ ~reuploaded /\ df.n = 2
    /\ out.columns = FINAL_COLUMNS
    /\ Cell(1, "Phone 1") = ""
    /\ Cell(2, "Phone 1") = "5551234567"

(***************************************************************************)
(* C3: a source cell of a phone column with exactly 10 digits is written   *)
(* to its Phone field as (NNN) NNN-NNNN; a cell with another digit count   *)
(* is written as the empty string or unchanged.                            *)
(***************************************************************************)
IsFormattedPhone(v) ==
    /\ Len(v) = 14
    /\ CharAt(v, 1) = "(" /\ CharAt(v, 5) = ")" /\ CharAt(v, 6) = " " /\ CharAt(v, 10) = "-"
    /\ \A i \in {2, 3, 4, 7, 8, 9, 11, 12, 13, 14} : CharAt(v, i) \in Digit

PHONE_FIELDS == <<"Phone 1", "Phone 2", "Phone 3">>

C3_PhoneFormatted ==
    Cleaned =>
        \A k \in 1..3 :
            k <= Cardinality(PhoneColumns) =>
                \A i \in 1..df.n :
                    LET cell == df.data[Ascending(PhoneColumns)[k]][i]
                        v == Cell(i, PHONE_FIELDS[k])
                    IN IF Len(KeepChars(cell, Digit)) = 10
                       THEN IsFormattedPhone(v)
                       ELSE v = "" \/ v = cell

(***************************************************************************)
(* C4: the cleaner run on its own output (the downloaded CSV, uploaded     *)
(* again) gives that output back, header for header and cell for cell.     *)
(***************************************************************************)
C4_Idempotent ==
    (Cleaned /\ reuploaded) =>
        /\ out.columns = df.columns
        /\ out.index = 1..df.n
        /\ \A i \in out.index : \A k \in 1..Len(out.columns) : CellAt(i, k) = df.data[k][i]

(***************************************************************************)
(* C5: with no header matching an SSN alias, a column whose non-empty      *)
(* values are at least half NNN-NN-NNNN is the SSN field of the output;    *)
(* likewise NN-NNNNNNN and the EIN field.                                  *)
(***************************************************************************)
Shaped(v, shape) ==
    /\ Len(v) = Len(shape)
    /\ \A i \in 1..Len(shape) :
          IF CharAt(shape, i) = "N" THEN CharAt(v, i) \in Digit ELSE CharAt(v, i) = CharAt(shape, i)

ShapedColumns(shape) ==
    {j \in 1..Len(df.columns) :
        LET filled == {i \in 1..df.n : df.data[j][i] # ""}
        IN /\ filled # {}
           /\ 2 * Cardinality({i \in filled : Shaped(df.data[j][i], shape)}) >= Cardinality(filled)}

ClassifiedByShape(name, keys, shape) ==
    (Matching(keys) = {} /\ ShapedColumns(shape) # {}) =>
        \E j \in ShapedColumns(shape) : \A i \in 1..df.n : Cell(i, name) = df.data[j][i]

C5_PatternClassified ==
    Cleaned =>
        /\ ClassifiedByShape("SSN", FIELD_ALIASES.ssn, "NNN-NN-NNNN")
        /\ ClassifiedByShape("EIN", FIELD_ALIASES.ein, "NN-NNNNNNN")

(***************************************************************************)
(* C6, as claimed: a target field found by its header takes the values of  *)
(* the last source column whose normalized header equals a normalized      *)
(* alias of the field.                                                     *)
(***************************************************************************)
C6_LastWins ==
    Cleaned =>
        \A f \in AliasFields :
            Matching(f[2]) # {} => out.data[ColumnOf(f[1])] = Column(df, Max(Matching(f[2])))

(***************************************************************************)
(* C6, amended: such a field takes the values of the first source column,  *)
(* in column order, whose normalized header equals a normalized alias of   *)
(* the field, and is empty when no header equals one (a header that only   *)
(* contains an alias does not count).                                      *)
(***************************************************************************)
C6_FirstWins ==
    Cleaned =>
        \A f \in AliasFields :
            out.data[ColumnOf(f[1])] =
                IF Matching(f[2]) # {} THEN Column(df, Min(Matching(f[2])))
                ELSE [i \in 1..df.n |-> Str("")]

\* Two columns are aliases of Business Name and differ; a third header only
\* contains an alias
C6_Witness ==
    /\ Cleaned /\ ~reuploaded
    /\ Cardinality(Matching(FIELD_ALIASES.business_name)) >= 2
    /\ Column(df, Min(Matching(FIELD_ALIASES.business_name)))
          # Column(df, Max(Matching(FIELD_ALIASES.business_name)))
    /\ out.data[ColumnOf("Business Name")] = Column(df, Min(Matching(FIELD_ALIASES.business_name)))

(***************************************************************************)
(* C7: a run of the cleaner on an uploaded table raises no error, and no   *)
(* cell of the output is a marker text for a missing value: a cell that    *)
(* is not a date in the column chosen for a date field gives "".           *)
(***************************************************************************)
MARKERS == {"NaT", "nan", "None"}

C7_SilentEmpty ==
    (app = "app1" /\ page.body /\ uploaded_file # NoFile) =>
        /\ page.exception = ""
        /\ page.output
        /\ \A i \in out.index : \A k \in 1..Len(out.columns) : CellAt(i, k) \notin MARKERS

(***************************************************************************)
(* C8: the body of the page runs only with password_correct True; a wrong  *)
(* submission sets the flag False and the run that follows shows the error *)
(* and the input; a correct submission sets it True whatever came before;  *)
(* once True the flag stays True.                                          *)
(***************************************************************************)
Gated ==
    /\ page.body <=> password_correct = "True"
    /\ page.input <=> ~page.body
    /\ page.error <=> password_correct = "False"
    /\ (uploaded_file # NoFile \/ out # EmptyFrame \/ uploaded_files # <<>> \/ neg_counts # <<>>
        \/ failed_pdfs # <<>> \/ page.output)
          => password_correct = "True"

C8_PasswordGate ==
    [][ /\ Gated
        /\ Gated'
        /\ password_correct = "True" => password_correct' = "True"
        /\ \A p \in Attempts :
              SubmitPassword(p) =>
                  IF p = PASSWORD
                  THEN password_correct' = "True" /\ page'.body
                  ELSE password_correct' = "False" /\ page'.input /\ page'.error /\ ~page'.body
      ]_vars

\* Access granted: the flag is True and the body has run on an uploaded file
C8_Witness ==
    /\ password_correct = "True" /\ page.body /\ ~page.input /\ ~page.error
    /\ password = <<>>
    /\ page.output

(***************************************************************************)
(* C9: the Negative Balance Days reported for a statement is the number of *)
(* its dated balance entries, 'Mon DD' followed by a dollar amount, whose  *)
(* amount is negative.                                                     *)
(***************************************************************************)
NegativeEntryAt(text, i) ==
    /\ DateAt(text, i)
    /\ LET w == RunEnd(text, i + 6, Whitespace)
       IN /\ w >= i + 6
          /\ w + 2 <= Len(text)
          /\ CharAt(text, w + 1) = "$"
          /\ CharAt(text, w + 2) = "-"
          /\ AmountEnd(text, w + 3) # 0
          /\ \E k \in w + 3..AmountEnd(text, w + 3) : CharAt(text, k) \in Digit \ {"0"}

C9_NegativeDaysCounted ==
    \A n \in 1..Len(neg_counts) :
        neg_counts[n].days =
            Cardinality({i \in 1..Len(uploaded_files[neg_counts[n].statement]) :
                            NegativeEntryAt(uploaded_files[neg_counts[n].statement], i)})

(***************************************************************************)
(* C10: a column with a date is a DOB candidate iff more than half of its  *)
(* dates are before 2000 and a Business Start Date candidate iff more than *)
(* half are from 2000 on; no column is both; each field is the first       *)
(* candidate in column order, as text, or empty strings without one.       *)
(***************************************************************************)
Parsed(j) == {i \in 1..df.n : to_datetime(df.data[j][i]) # NaT}
Before2000(j) == {i \in Parsed(j) : to_datetime(df.data[j][i]).y < 2000}
DobColumns ==
    {j \in 1..Len(df.columns) :
        Parsed(j) # {} /\ 2 * Cardinality(Before2000(j)) > Cardinality(Parsed(j))}
BsdColumns ==
    {j \in 1..Len(df.columns) :
        Parsed(j) # {} /\ 2 * Cardinality(Parsed(j) \ Before2000(j)) > Cardinality(Parsed(j))}
DateText(j) == [i \in 1..df.n |-> Str(astype_str(to_datetime(df.data[j][i])))]

C10_DobBsdDisjoint ==
    Cleaned =>
        /\ DobColumns \cap BsdColumns = {}
        /\ out.data[ColumnOf("DOB")] =
              IF DobColumns # {} THEN DateText(Min(DobColumns)) ELSE [i \in 1..df.n |-> Str("")]
        /\ out.data[ColumnOf("Business Start Date")] =
              IF BsdColumns # {} THEN DateText(Min(BsdColumns)) ELSE [i \in 1..df.n |-> Str("")]

\* A column split half and half is a candidate for neither field, and both
\* fields are empty
C10_Witness ==
    /\ Cleaned /\ ~reuploaded
    /\ \E j \in 1..Len(df.columns) :
          Cardinality(Parsed(j)) = 2 /\ Cardinality(Before2000(j)) = 1
    /\ AllEmpty(ColumnOf("DOB"))
    /\ AllEmpty(ColumnOf("Business Start Date"))

=============================================================================
